---- MODULE Spec2Model ----
(***************************************************************************)
(* Cross-repository fleet graph aggregator of mycarhub-fleet-analytics:    *)
(* carhubClient.js (inventory, persona and component loaders) and          *)
(* fleetAggregator.js (buildFleetGraph, summarizeVehicles), together with  *)
(* the service hub's serviceComposer.js that writes the package artifact.  *)
(*                                                                         *)
(* Text is a tuple of one-character strings, so that splitting, extension  *)
(* handling and template-literal concatenation are computed, not assumed.  *)
(* A JavaScript value is a record tagged by its type in field t.           *)
(***************************************************************************)
EXTENDS Integers, Sequences, FiniteSets, TLC

VARIABLES db, assets, personaFile, uiFile, svcFile, writes, op, result, lastBuild

vars == <<db, assets, personaFile, uiFile, svcFile, writes, op, result, lastBuild>>

(***************************************************************************)
(* Bounds of the model.                                                    *)
(***************************************************************************)
MaxVehicles == 2
MaxPackages == 2
MaxWrites == 1

(***************************************************************************)
(* JavaScript values.                                                      *)
(***************************************************************************)
Undefined == [t |-> "undefined"]
Null == [t |-> "null"]
Str(s) == [t |-> "string", s |-> s]
Num(n) == [t |-> "number", n |-> n]
Arr(a) == [t |-> "array", a |-> a]
Obj(o) == [t |-> "object", o |-> o]

isArray(v) == v.t = "array"

\* Boolean coercion, as used by `x || y` and `if (x)`.
Truthy(v) ==
  CASE v.t = "undefined" -> FALSE
    [] v.t = "null" -> FALSE
    [] v.t = "string" -> v.s # <<>>
    [] v.t = "number" -> v.n # 0
    [] OTHER -> TRUE

\* Property access v.k or v[k] throws a TypeError on null and undefined.
AccessRaises(v) == v.t \in {"undefined", "null"}

\* Property access on a value that is neither null nor undefined.
Get(v, k) ==
  IF v.t = "object" /\ k \in DOMAIN v.o THEN v.o[k] ELSE Undefined

\* Optional chaining v?.k.
GetOpt(v, k) == IF AccessRaises(v) THEN Undefined ELSE Get(v, k)

(***************************************************************************)
(* Text helpers.  Ascii lists the printable characters in code order from  *)
(* 32; the grave accent (code 96) is written as the token GRAVE.           *)
(***************************************************************************)
Ascii ==
  << " ", "!", "\"", "#", "$", "%", "&", "'", "(", ")", "*", "+", ",", "-",
     ".", "/", "0", "1", "2", "3", "4", "5", "6", "7", "8", "9", ":", ";",
     "<", "=", ">", "?", "@", "A", "B", "C", "D", "E", "F", "G", "H", "I",
     "J", "K", "L", "M", "N", "O", "P", "Q", "R", "S", "T", "U", "V", "W",
     "X", "Y", "Z", "[", "\\", "]", "^", "_", "GRAVE", "a", "b", "c", "d", "e",
     "f", "g", "h", "i", "j", "k", "l", "m", "n", "o", "p", "q", "r", "s",
     "t", "u", "v", "w", "x", "y", "z", "{", "|", "}", "~" >>

\* String.prototype.charCodeAt for one character.
CharCode(c) == 31 + CHOOSE i \in 1..Len(Ascii) : Ascii[i] = c

FromCharCode(n) == Ascii[n - 31]

IsUpper(c) == CharCode(c) \in 65..90
IsLower(c) == CharCode(c) \in 97..122
IsDigit(c) == CharCode(c) \in 48..57

LowerChar(c) == IF IsUpper(c) THEN FromCharCode(CharCode(c) + 32) ELSE c
UpperChar(c) == IF IsLower(c) THEN FromCharCode(CharCode(c) - 32) ELSE c

toLowerCase(s) == [i \in 1..Len(s) |-> LowerChar(s[i])]

\* Position of the last occurrence of character c in s, 0 when there is none.
LastIndexOf(s, c) ==
  IF \E i \in 1..Len(s) : s[i] = c
  THEN CHOOSE i \in 1..Len(s) : s[i] = c /\ \A j \in (i + 1)..Len(s) : s[j] # c
  ELSE 0

\* Position of the first occurrence of character c in s, 0 when there is none.
IndexOf(s, c) ==
  IF \E i \in 1..Len(s) : s[i] = c
  THEN CHOOSE i \in 1..Len(s) : s[i] = c /\ \A j \in 1..(i - 1) : s[j] # c
  ELSE 0

\* String.prototype.split with a one-character separator.
RECURSIVE Split(_, _)
Split(s, c) ==
  LET i == IndexOf(s, c)
  IN IF i = 0 THEN <<s>>
     ELSE <<SubSeq(s, 1, i - 1)>> \o Split(SubSeq(s, i + 1, Len(s)), c)

\* Array.prototype.join with separator text sep.
RECURSIVE Join(_, _)
Join(parts, sep) ==
  IF parts = <<>> THEN <<>>
  ELSE IF Len(parts) = 1 THEN parts[1]
  ELSE parts[1] \o sep \o Join(Tail(parts), sep)

\* String.prototype.includes.
Includes(s, sub) ==
  \E i \in 1..(Len(s) - Len(sub) + 1) : SubSeq(s, i, i + Len(sub) - 1) = sub

RECURSIVE Digits(_)
Digits(n) ==
  IF n < 10 THEN <<FromCharCode(48 + n)>>
  ELSE Digits(n \div 10) \o <<FromCharCode(48 + (n % 10))>>

\* Conversion of a value inside a template literal, for texts, numbers, null
\* and undefined (the values the model puts there).
ToText(v) ==
  CASE v.t = "string" -> v.s
    [] v.t = "number" -> Digits(v.n)
    [] v.t = "null" -> <<"n", "u", "l", "l">>
    [] OTHER -> <<"u", "n", "d", "e", "f", "i", "n", "e", "d">>

(***************************************************************************)
(* carhubClient.js: paths and the file system as the loaders see it.       *)
(*                                                                         *)
(* A JSON file is [st, val]: st is "missing", "unreadable" (the read       *)
(* throws), "empty" (zero bytes), "invalid" (text that JSON.parse rejects) *)
(* or "json" (text that parses to val).  A text file is [st, text].  The   *)
(* asset directory is [st, files]: "missing", "unreadable" (it exists and  *)
(* readdirSync throws) or "dir" with its listing.                          *)
(***************************************************************************)
DB_PATH == "mycarhub/src/db.json"
CARS_PAGE_PATH == "mycarhub/src/Cars.js"
CONTEXT_PATH == "mycarhub/src/UserInformationContext.js"
ASSETS_DIR == "mycarhub/src/assets/cars"

\* fs.readFileSync inside try/catch: the payload, or null when the read throws.
readFileSafe(f) == IF f.st \in {"missing", "unreadable"} THEN Null ELSE f

\* Truthiness of a payload returned by readFileSafe: null and "" are falsy.
PayloadTruthy(p) == p # Null /\ p.st # "empty"

\* JSON.parse of a payload: [ok, val]; ok is FALSE when it throws.
JSONparse(p) ==
  IF p.st = "json" THEN [ok |-> TRUE, val |-> p.val]
  ELSE [ok |-> FALSE, val |-> Undefined]

\* path.extname of a file name without directory part.
extname(file) ==
  LET i == LastIndexOf(file, ".")
  IN IF i <= 1 THEN <<>> ELSE SubSeq(file, i, Len(file))

\* path.basename(file, ext).
basename(file, ext) ==
  IF ext # <<>> /\ Len(ext) < Len(file)
     /\ SubSeq(file, Len(file) - Len(ext) + 1, Len(file)) = ext
  THEN SubSeq(file, 1, Len(file) - Len(ext))
  ELSE file

ImageExtensions ==
  { <<".", "p", "n", "g">>, <<".", "j", "p", "g">>, <<".", "j", "p", "e", "g">>,
    <<".", "a", "v", "i", "f">>, <<".", "w", "e", "b", "p">> }

\* The filter of loadAssetsInventory.
IsImageFile(file) == toLowerCase(extname(file)) \in ImageExtensions

\* x || fallback on texts: the empty text is falsy.
OrText(x, fallback) == IF x = <<>> THEN fallback ELSE x

\* A parse with one default, "unknown", for all three parts.
NameOfSegmentsOneDefault(segments) ==
  [ make |-> OrText(segments[1], <<"u", "n", "k", "n", "o", "w", "n">>),
    model |-> OrText(IF Len(segments) >= 2 THEN segments[2] ELSE <<>>,
                     <<"u", "n", "k", "n", "o", "w", "n">>),
    variant |-> OrText(Join(SubSeq(segments, 3, Len(segments)), <<"-">>),
                       <<"u", "n", "k", "n", "o", "w", "n">>) ]

\* make, model and variant from the segments of the base name.
NameOfSegments(segments) ==
  [ make |-> OrText(segments[1], <<"u", "n", "k", "n", "o", "w", "n">>),
    model |-> OrText(IF Len(segments) >= 2 THEN segments[2] ELSE <<>>,
                     <<"v", "e", "h", "i", "c", "l", "e">>),
    variant |-> OrText(Join(SubSeq(segments, 3, Len(segments)), <<"-">>),
                       <<"b", "a", "s", "e">>) ]

parseAssetName(filename) ==
  NameOfSegments(Split(basename(filename, extname(filename)), "-"))

IsTitleSeparator(c) == c \in {"-", "_", " "}

\* value.split(/[-_ ]+/)
RECURSIVE SplitTitle(_)
SplitTitle(s) ==
  IF \A i \in 1..Len(s) : ~IsTitleSeparator(s[i]) THEN <<s>>
  ELSE LET i == CHOOSE k \in 1..Len(s) :
                  IsTitleSeparator(s[k]) /\ \A j \in 1..(k - 1) : ~IsTitleSeparator(s[j])
           e == CHOOSE k \in i..Len(s) :
                  /\ \A j \in i..k : IsTitleSeparator(s[j])
                  /\ (k = Len(s) \/ ~IsTitleSeparator(s[k + 1]))
       IN <<SubSeq(s, 1, i - 1)>> \o SplitTitle(SubSeq(s, e + 1, Len(s)))

Capitalize(part) ==
  IF part = <<>> THEN <<>> ELSE <<UpperChar(part[1])>> \o Tail(part)

toTitle(value) ==
  LET parts == SplitTitle(value)
  IN Join([i \in 1..Len(parts) |-> Capitalize(parts[i])], <<" ">>)

mockRangeFor(make, model) ==
  LET seed == (CharCode(make[1]) + CharCode(model[1])) % 100
  IN 250 + seed

\* Math.round(a / b) for a >= 0 and b > 0.
\* Math.floor where the code has Math.round.
FloorDiv(a, b) == a \div b

RoundDiv(a, b) == (2 * a + b) \div (2 * b)

mockPrice(make) ==
  LET base == 30000 + CharCode(make[1]) * 500
  IN RoundDiv(base, 100) * 100

mockBattery(variant) ==
  IF Includes(variant, <<"s", "p", "o", "r", "t">>)
     \/ Includes(variant, <<"p", "e", "r", "f", "o", "r", "m", "a", "n", "c", "e">>)
  THEN <<"95 kWh">>
  ELSE IF Includes(variant, <<"c", "a", "m", "r", "y">>)
          \/ Includes(variant, <<"a", "c", "c", "o", "r", "d">>)
  THEN <<"70 kWh">>
  ELSE <<"80 kWh">>

\* A record whose range and price are seeded with the title-cased names.
VehicleOfTitledName(p, file) ==
  Obj([ id |-> Str(p.make \o <<"-">> \o p.model \o <<"-">> \o p.variant),
        make |-> Str(toTitle(p.make)),
        model |-> Str(toTitle(p.model)),
        trim |-> Str(toTitle(p.variant)),
        image |-> Str(<<"assets/cars/">> \o file),
        range |-> Num(mockRangeFor(toTitle(p.make), toTitle(p.model))),
        price |-> Num(mockPrice(toTitle(p.make))),
        battery |-> Str(mockBattery(p.variant)) ])

\* The record loadAssetsInventory makes of a file and its parsed name p.
VehicleOfName(p, file) ==
  Obj([ id |-> Str(p.make \o <<"-">> \o p.model \o <<"-">> \o p.variant),
        make |-> Str(toTitle(p.make)),
        model |-> Str(toTitle(p.model)),
        trim |-> Str(toTitle(p.variant)),
        image |-> Str(<<"assets/cars/">> \o file),
        range |-> Num(mockRangeFor(p.make, p.model)),
        price |-> Num(mockPrice(p.make)),
        battery |-> Str(mockBattery(p.variant)) ])

\* The vehicle loadAssetsInventory derives from one image file name.
SyntheticVehicle(file) == VehicleOfName(parseAssetName(file), file)

\* A derivation that seeds the range with the position of the file in the
\* listing instead of the file name.
loadAssetsInventorySeededByPosition(dir) ==
  IF dir.st = "missing" THEN [raised |-> FALSE, vehicles |-> <<>>]
  ELSE IF dir.st = "unreadable" THEN [raised |-> TRUE, vehicles |-> <<>>]
  ELSE [raised |-> FALSE,
        vehicles |-> [i \in 1..Len(SelectSeq(dir.files, IsImageFile)) |->
           Obj([SyntheticVehicle(SelectSeq(dir.files, IsImageFile)[i]).o
                  EXCEPT !.range = Num(250 + i)])]]

\* [raised, vehicles]: readdirSync is not guarded, so its error propagates.
loadAssetsInventory(dir) ==
  IF dir.st = "missing" THEN [raised |-> FALSE, vehicles |-> <<>>]
  ELSE IF dir.st = "unreadable" THEN [raised |-> TRUE, vehicles |-> <<>>]
  ELSE LET files == SelectSeq(dir.files, IsImageFile)
       IN [raised |-> FALSE,
           vehicles |-> [i \in 1..Len(files) |-> SyntheticVehicle(files[i])]]

\* The vehicle list loadInventory takes from the primary file.
\* A primary list that is taken from the cars array of an object only.
PrimaryVehiclesOfCarsOnly(dbf) ==
  IF ~PayloadTruthy(readFileSafe(dbf)) \/ ~JSONparse(readFileSafe(dbf)).ok
  THEN <<>>
  ELSE IF isArray(GetOpt(JSONparse(readFileSafe(dbf)).val, "cars"))
  THEN GetOpt(JSONparse(readFileSafe(dbf)).val, "cars").a
  ELSE <<>>

PrimaryVehicles(dbf) ==
  LET payload == readFileSafe(dbf)
  IN IF ~PayloadTruthy(payload) THEN <<>>
     ELSE LET parsed == JSONparse(payload)
          IN IF ~parsed.ok THEN <<>>
             ELSE IF isArray(GetOpt(parsed.val, "cars")) THEN GetOpt(parsed.val, "cars").a
             ELSE IF isArray(parsed.val) THEN parsed.val.a
             ELSE <<>>

\* A fallback that attributes the synthetic list to the primary file.
FallbackAttributedToDb(synth) ==
  [raised |-> synth.raised, vehicles |-> synth.vehicles, source |-> DB_PATH]

\* The fallback of loadInventory: the synthetic list, attributed to ASSETS_DIR.
FallbackInventory(synth) ==
  [raised |-> synth.raised, vehicles |-> synth.vehicles, source |-> ASSETS_DIR]

\* loadInventory once the primary list is known.
InventoryOf(primary, dir) ==
  IF Len(primary) # 0
  THEN [raised |-> FALSE, vehicles |-> primary, source |-> DB_PATH]
  ELSE FallbackInventory(loadAssetsInventory(dir))

\* [raised, vehicles, source]
loadInventory(dbf, dir) == InventoryOf(PrimaryVehicles(dbf), dir)

(***************************************************************************)
(* carhubClient.js: persona and component scanners.                        *)
(***************************************************************************)
\* Index after literal lit when s continues with it at i; 0 when it does not
\* (or when i is 0, a match that already failed).
MatchLit(s, i, lit) ==
  IF i # 0 /\ i + Len(lit) - 1 <= Len(s) /\ SubSeq(s, i, i + Len(lit) - 1) = lit
  THEN i + Len(lit)
  ELSE 0

\* Index after the longest run of characters of set cs that starts at i.
RunEnd(s, i, cs) ==
  IF i = 0 THEN 0
  ELSE CHOOSE e \in i..(Len(s) + 1) :
         /\ \A j \in i..(e - 1) : s[j] \in cs
         /\ (e = Len(s) + 1 \/ s[e] \notin cs)

\* The regular expression of loadPersonaMetadata as the source spells it,
\*   /const\\s+defaultUser\\s*=\\s*({[\\s\\S]+?});/
\* where each \\ is a literal backslash, s+ and s* are runs of the letter s and
\* [\\s\\S] is the class of backslash, s and S.  The value is the text of the
\* capture group when the expression matches at i, and <<>> when it does not.
PersonaMatchAt(s, i) ==
  LET a == MatchLit(s, i, <<"c", "o", "n", "s", "t", "\\">>)
      b == RunEnd(s, a, {"s"})
      c == MatchLit(s, IF b > a THEN b ELSE 0,
                    <<"d", "e", "f", "a", "u", "l", "t", "U", "s", "e", "r", "\\">>)
      d == MatchLit(s, RunEnd(s, c, {"s"}), <<"=", "\\">>)
      g == RunEnd(s, d, {"s"})
      h == MatchLit(s, g, <<"{">>)
      k == RunEnd(s, h, {"\\", "s", "S"})
      m == MatchLit(s, IF k > h THEN k ELSE 0, <<"}", ";">>)
  IN IF m = 0 THEN <<>> ELSE SubSeq(s, g, m - 2)

\* content.match(...): the capture of the leftmost match, <<>> when none.
FirstOf(positions) == CHOOSE i \in positions : \A j \in positions : i <= j

PersonaMatchIn(s, positions) ==
  IF positions = {} THEN <<>> ELSE PersonaMatchAt(s, FirstOf(positions))

PersonaMatch(s) ==
  PersonaMatchIn(s, {i \in 1..Len(s) : PersonaMatchAt(s, i) # <<>>})

\* A loader that returns the empty string, not null, when there is no match.
loadPersonaMetadataEmptyText(f) ==
  IF readFileSafe(f) = Null \/ readFileSafe(f).text = <<>>
  THEN [persona |-> Null, source |-> CONTEXT_PATH]
  ELSE [persona |-> Str(PersonaMatch(readFileSafe(f).text)), source |-> CONTEXT_PATH]

\* [persona, source]; persona is Null or Str(text).  The capture starts with
\* "{" and ends with "}", so trim() leaves it as it is.
loadPersonaMetadata(f) ==
  LET content == readFileSafe(f)
  IN IF content = Null \/ content.text = <<>>
     THEN [persona |-> Null, source |-> CONTEXT_PATH]
     ELSE LET cap == PersonaMatch(content.text)
          IN [persona |-> IF cap = <<>> THEN Null ELSE Str(cap),
              source |-> CONTEXT_PATH]

AlnumChars ==
  {Ascii[i] : i \in {j \in 1..Len(Ascii) :
     IsUpper(Ascii[j]) \/ IsLower(Ascii[j]) \/ IsDigit(Ascii[j])}}

\* content.match(/<([A-Z][A-Za-z0-9]+)/g) with the leading "<" of each match
\* removed: the matches from index i on, left to right, not overlapping.
RECURSIVE ScanTags(_, _)
ScanTags(s, i) ==
  IF i > Len(s) THEN <<>>
  ELSE IF /\ s[i] = "<"
          /\ i + 2 <= Len(s)
          /\ IsUpper(s[i + 1])
          /\ s[i + 2] \in AlnumChars
  THEN LET e == RunEnd(s, i + 2, AlnumChars)
       IN <<SubSeq(s, i + 1, e - 1)>> \o ScanTags(s, e)
  ELSE ScanTags(s, i + 1)

\* [...new Set(list)]: first occurrences, in order.
\* A list taken as it is, repetitions included.
KeepRepetitions(list) == list

RECURSIVE Dedupe(_)
Dedupe(list) ==
  IF list = <<>> THEN <<>>
  ELSE LET front == Dedupe(SubSeq(list, 1, Len(list) - 1))
           last == list[Len(list)]
       IN IF \E i \in 1..Len(front) : front[i] = last
          THEN front
          ELSE Append(front, last)

\* [components, source]
listReferencedComponents(f) ==
  LET content == readFileSafe(f)
  IN IF content = Null \/ content.text = <<>>
     THEN [components |-> <<>>, source |-> CARS_PAGE_PATH]
     ELSE [components |-> Dedupe(ScanTags(content.text, 1)),
           source |-> CARS_PAGE_PATH]

(***************************************************************************)
(* fleetAggregator.js                                                      *)
(***************************************************************************)
GRAPH_NAMESPACE == "carhub"
SERVICE_HUB_DATA == "mycarhub-service-hub/data/service_packages.json"
CARHUB_ROOT == "mycarhub/src"

\* `${GRAPH_NAMESPACE}:${kind}:${disc}`: the fixed prefix is one element of the
\* text, the discriminator follows character by character.
NodeId(kind, disc) == <<GRAPH_NAMESPACE \o ":" \o kind \o ":">> \o disc

\* Number(v) || 0 for the values JSON can hold: a number is itself, a text of
\* digits is its value, everything else (NaN, "", null, undefined) gives 0.
RECURSIVE DigitsValue(_)
DigitsValue(s) ==
  IF s = <<>> THEN 0
  ELSE 10 * DigitsValue(SubSeq(s, 1, Len(s) - 1)) + (CharCode(s[Len(s)]) - 48)

NumberOrZero(v) ==
  CASE v.t = "number" -> v.n
    [] v.t = "string" /\ \A i \in 1..Len(v.s) : IsDigit(v.s[i]) -> DigitsValue(v.s)
    [] OTHER -> 0

\* x || fallback on values.
OrValue(x, fallback) == IF Truthy(x) THEN x ELSE fallback

RECURSIVE SumRanges(_)
SumRanges(vehicles) ==
  IF vehicles = <<>> THEN 0
  ELSE NumberOrZero(Get(Head(vehicles), "range")) + SumRanges(Tail(vehicles))

\* A summary whose total counts only the vehicles that have a range.
summarizeVehiclesWithRange(vehicles) ==
  IF Len(vehicles) = 0
  THEN [raised |-> FALSE, total |-> 0, avgRange |-> 0, trims |-> <<>>]
  ELSE IF \E i \in 1..Len(vehicles) : AccessRaises(vehicles[i])
  THEN [raised |-> TRUE, total |-> 0, avgRange |-> 0, trims |-> <<>>]
  ELSE [raised |-> FALSE,
        total |-> Cardinality({i \in 1..Len(vehicles) : Truthy(Get(vehicles[i], "range"))}),
        avgRange |-> RoundDiv(SumRanges(vehicles), Len(vehicles)),
        trims |-> Dedupe([i \in 1..Len(vehicles) |->
                   OrValue(Get(vehicles[i], "trim"),
                           Str(<<"s", "t", "a", "n", "d", "a", "r", "d">>))])]

\* [raised, total, avgRange, trims]: car.range throws on a null element.
summarizeVehicles(vehicles) ==
  IF Len(vehicles) = 0
  THEN [raised |-> FALSE, total |-> 0, avgRange |-> 0, trims |-> <<>>]
  ELSE IF \E i \in 1..Len(vehicles) : AccessRaises(vehicles[i])
  THEN [raised |-> TRUE, total |-> 0, avgRange |-> 0, trims |-> <<>>]
  ELSE [raised |-> FALSE,
        total |-> Len(vehicles),
        avgRange |-> RoundDiv(SumRanges(vehicles), Len(vehicles)),
        trims |-> Dedupe([i \in 1..Len(vehicles) |->
                   OrValue(Get(vehicles[i], "trim"),
                           Str(<<"s", "t", "a", "n", "d", "a", "r", "d">>))])]

AllowedFields ==
  {"id", "make", "model", "trim", "range", "price", "battery", "image"}

\* A projection that also lets the vin of a vehicle through.
pickVehicleFieldsAndVin(vehicle) ==
  Obj([field \in {f \in AllowedFields \cup {"vin"} : Get(vehicle, f) # Undefined} |->
         Get(vehicle, field)])

pickVehicleFields(vehicle) ==
  Obj([field \in {f \in AllowedFields : Get(vehicle, f) # Undefined} |->
         Get(vehicle, field)])

\* The package list held by file f.
PackagesHeldBy(f) ==
  IF f.st # "json" THEN <<>>
  ELSE IF isArray(GetOpt(f.val, "packages")) THEN GetOpt(f.val, "packages").a
  ELSE <<>>

\* A reader that keeps the artifact it read for an earlier build and answers
\* from that copy afterwards.
loadServicePackagesCached(f) ==
  IF lastBuild.built THEN PackagesHeldBy(lastBuild.files[5]) ELSE PackagesHeldBy(f)

\* fs.existsSync, then JSON.parse(fs.readFileSync(...)) inside try/catch: the
\* package list; every failure gives the empty list.
loadServicePackages(f) ==
  IF f.st = "missing" THEN <<>>
  ELSE IF f.st = "unreadable" THEN <<>>
  ELSE LET parsed == JSONparse(f)
       IN IF ~parsed.ok THEN <<>>
          ELSE IF isArray(GetOpt(parsed.val, "packages"))
          THEN GetOpt(parsed.val, "packages").a
          ELSE <<>>

\* The id of the node made for vehicle number i; rv[i] is what nanoid(4)
\* returns when the vehicle has no usable id.
VehicleNodeId(vehicle, r) ==
  NodeId("vehicle", IF Truthy(Get(vehicle, "id")) THEN ToText(Get(vehicle, "id")) ELSE r)

\* A vehicle node that takes the type of the root node.
VehicleNodeTypedAsFleet(vehicle, r, source) ==
  [ id |-> VehicleNodeId(vehicle, r),
    type |-> "FleetInventory",
    label |-> ToText(Get(vehicle, "make")) \o <<" ">> \o ToText(Get(vehicle, "model")),
    payload |-> pickVehicleFields(vehicle),
    source |-> source ]

VehicleNode(vehicle, r, source) ==
  [ id |-> VehicleNodeId(vehicle, r),
    type |-> "Vehicle",
    label |-> ToText(Get(vehicle, "make")) \o <<" ">> \o ToText(Get(vehicle, "model")),
    payload |-> pickVehicleFields(vehicle),
    source |-> source ]

\* A PART_OF edge that leads from the root to the vehicle.
PartOfEdgeFromFleet(vehicleNodeId, fleetNodeId) ==
  [ id |-> vehicleNodeId \o <<"->inventory">>,
    from |-> fleetNodeId,
    to |-> vehicleNodeId,
    relation |-> "PART_OF" ]

PartOfEdge(vehicleNodeId, fleetNodeId) ==
  [ id |-> vehicleNodeId \o <<"->inventory">>,
    from |-> vehicleNodeId,
    to |-> fleetNodeId,
    relation |-> "PART_OF" ]

\* vehicleNodeMap after the loop over the vehicles: vehicle.id -> node id, for
\* the vehicles whose id is truthy (a later set of the same key wins).
VehicleNodeMap(vehicles, rv) ==
  LET keyed == {i \in 1..Len(vehicles) : Truthy(Get(vehicles[i], "id"))}
      last(k) == CHOOSE i \in keyed :
                   /\ Get(vehicles[i], "id") = k
                   /\ \A j \in keyed : Get(vehicles[j], "id") = k => j <= i
  IN [k \in {Get(vehicles[i], "id") : i \in keyed} |->
        VehicleNodeId(vehicles[last(k)], rv[last(k)])]

\* A lookup that derives the node id from the key instead of consulting the map.
MapGetDerived(map, key) == NodeId("vehicle", ToText(key))

\* Map.prototype.get: <<>> stands for undefined (a node id is never empty).
MapGet(map, key) == IF key \in DOMAIN map THEN map[key] ELSE <<>>

ServiceNodeId(pkg) == NodeId("service", ToText(Get(pkg, "id")))

ServiceNode(pkg) ==
  [ id |-> ServiceNodeId(pkg),
    type |-> "ServicePackage",
    label |-> ToText(Get(pkg, "package")) \o <<" (">>
                \o ToText(Get(pkg, "vehicleId")) \o <<")">>,
    price |-> Get(pkg, "price"),
    cadence |-> Get(pkg, "cadence"),
    workshop |-> Get(pkg, "workshop"),
    dependencies |-> Get(pkg, "dependencies"),
    source |-> Get(pkg, "source") ]

\* The edges one iteration of the loop of integrateServicePackages pushes.
ServiceEdges(pkg, context) ==
  LET nodeId == ServiceNodeId(pkg)
      vehicleNodeId == MapGet(context.vehicleNodeMap, Get(pkg, "vehicleId"))
  IN (IF vehicleNodeId # <<>>
      THEN << [ id |-> nodeId \o <<"->">> \o vehicleNodeId,
                from |-> nodeId, to |-> vehicleNodeId, relation |-> "SERVICES" ] >>
      ELSE <<>>)
     \o
     (IF context.uiNodeId # <<>>
      THEN << [ id |-> nodeId \o <<"->ui">>,
                from |-> nodeId, to |-> context.uiNodeId, relation |-> "SURFACES_IN" ] >>
      ELSE <<>>)
     \o
     << [ id |-> nodeId \o <<"->fleet">>,
          from |-> nodeId, to |-> context.fleetNodeId, relation |-> "ALIGN_WITH" ] >>

RECURSIVE Flatten(_)
Flatten(lists) ==
  IF lists = <<>> THEN <<>> ELSE Head(lists) \o Flatten(Tail(lists))

\* An integration that puts the packages' nodes in front of the node list.
IntegratePackagesInFront(graph, context, packages) ==
  IF \E i \in 1..Len(packages) : AccessRaises(packages[i])
  THEN [raised |-> TRUE, nodes |-> <<>>, edges |-> <<>>]
  ELSE [raised |-> FALSE,
        nodes |-> [i \in 1..Len(packages) |-> ServiceNode(packages[i])] \o graph.nodes,
        edges |-> graph.edges
                    \o Flatten([i \in 1..Len(packages) |->
                                  ServiceEdges(packages[i], context)])]

\* [raised, nodes, edges]: the graph with the packages' nodes and edges pushed;
\* pkg.id throws on a null element.
IntegratePackages(graph, context, packages) ==
  IF \E i \in 1..Len(packages) : AccessRaises(packages[i])
  THEN [raised |-> TRUE, nodes |-> <<>>, edges |-> <<>>]
  ELSE [raised |-> FALSE,
        nodes |-> graph.nodes \o [i \in 1..Len(packages) |-> ServiceNode(packages[i])],
        edges |-> graph.edges
                    \o Flatten([i \in 1..Len(packages) |->
                                  ServiceEdges(packages[i], context)])]

integrateServicePackages(graph, context, f) ==
  IntegratePackages(graph, context, loadServicePackages(f))

Raised == [raised |-> TRUE]

\* const graph = { nodes: [], edges: [], ... }: a build starts from a graph of
\* its own with nothing in it.
NewGraph == [nodes |-> <<>>, edges |-> <<>>]

FleetNode(fleetNodeId, inventory, stats) ==
  [ id |-> fleetNodeId,
    type |-> "FleetInventory",
    label |-> <<"MyCarHub Inventory">>,
    source |-> inventory.source,
    stats |-> [total |-> stats.total, avgRange |-> stats.avgRange,
               trims |-> stats.trims] ]

\* if (persona.persona) { ... }: the Persona node, if any.
PersonaNodes(persona, personaNodeId) ==
  IF Truthy(persona.persona)
  THEN << [ id |-> personaNodeId,
            type |-> "Persona",
            label |-> <<"Default User Persona">>,
            source |-> persona.source,
            personaSnippet |-> persona.persona ] >>
  ELSE <<>>

PersonaEdges(persona, personaNodeId, fleetNodeId) ==
  IF Truthy(persona.persona)
  THEN << [ id |-> personaNodeId \o <<"->fleet">>,
            from |-> personaNodeId, to |-> fleetNodeId,
            relation |-> "TARGETS" ] >>
  ELSE <<>>

\* A UI node that holds the first component only.
UiNodesHoldingFirst(components, uiNodeId) ==
  IF Len(components.components) > 0
  THEN << [ id |-> uiNodeId,
            type |-> "UIComponentSet",
            label |-> <<"Cars.js Component Tree">>,
            components |-> <<components.components[1]>>,
            source |-> components.source ] >>
  ELSE <<>>

\* if (components.components.length > 0) { ... }: the UIComponentSet node, if any.
UiNodes(components, uiNodeId) ==
  IF Len(components.components) > 0
  THEN << [ id |-> uiNodeId,
            type |-> "UIComponentSet",
            label |-> <<"Cars.js Component Tree">>,
            components |-> components.components,
            source |-> components.source ] >>
  ELSE <<>>

UiEdges(components, uiNodeId, fleetNodeId) ==
  IF Len(components.components) > 0
  THEN << [ id |-> uiNodeId \o <<"->fleet">>,
            from |-> uiNodeId, to |-> fleetNodeId,
            relation |-> "VISUALIZES" ] >>
  ELSE <<>>

\* The graph before the service packages: root, vehicles, persona, UI set.
BaseGraph(inventory, stats, persona, components, rnd) ==
  [ nodes |->
      NewGraph.nodes
      \o << FleetNode(NodeId("fleet", rnd.fleet), inventory, stats) >>
      \o [i \in 1..Len(inventory.vehicles) |->
            VehicleNode(inventory.vehicles[i], rnd.vehicle[i], inventory.source)]
      \o PersonaNodes(persona, NodeId("persona", rnd.persona))
      \o UiNodes(components, NodeId("ui", rnd.ui)),
    edges |->
      NewGraph.edges
      \o [i \in 1..Len(inventory.vehicles) |->
            PartOfEdge(VehicleNodeId(inventory.vehicles[i], rnd.vehicle[i]),
                       NodeId("fleet", rnd.fleet))]
      \o PersonaEdges(persona, NodeId("persona", rnd.persona), NodeId("fleet", rnd.fleet))
      \o UiEdges(components, NodeId("ui", rnd.ui), NodeId("fleet", rnd.fleet)) ]

\* What integrateServicePackages is called with: uiNodeId is <<>> (null) when
\* there is no UI node.
BuildContext(inventory, components, rnd) ==
  [ fleetNodeId |-> NodeId("fleet", rnd.fleet),
    uiNodeId |-> IF Len(components.components) > 0 THEN NodeId("ui", rnd.ui) ELSE <<>>,
    vehicleNodeMap |-> VehicleNodeMap(inventory.vehicles, rnd.vehicle) ]

\* The nodes kept when the node list is keyed by id: the first of each id.
RECURSIVE FirstOfEachId(_)
FirstOfEachId(nodes) ==
  IF nodes = <<>> THEN <<>>
  ELSE IF \E i \in 1..(Len(nodes) - 1) : nodes[i].id = nodes[Len(nodes)].id
  THEN FirstOfEachId(SubSeq(nodes, 1, Len(nodes) - 1))
  ELSE Append(FirstOfEachId(SubSeq(nodes, 1, Len(nodes) - 1)), nodes[Len(nodes)])

\* A build that returns its nodes keyed by id, so that nodes with equal ids
\* collapse into one.
ReturnGraphKeyedById(full, rnd) ==
  IF full.raised THEN Raised
  ELSE [ raised |-> FALSE,
         nodes |-> FirstOfEachId(full.nodes),
         edges |-> full.edges,
         metadata |-> [ namespace |-> GRAPH_NAMESPACE,
                        carhubRoot |-> CARHUB_ROOT,
                        generatedAt |-> rnd.now ] ]

\* The value buildFleetGraph returns once integrateServicePackages is through.
ReturnGraph(full, rnd) ==
  IF full.raised THEN Raised
  ELSE [ raised |-> FALSE,
         nodes |-> full.nodes,
         edges |-> full.edges,
         metadata |-> [ namespace |-> GRAPH_NAMESPACE,
                        carhubRoot |-> CARHUB_ROOT,
                        generatedAt |-> rnd.now ] ]

\* buildFleetGraph after its three loads; an error of loadInventory or of
\* summarizeVehicles leaves the function before anything is returned.
BuildOf(inventory, stats, persona, components, sf, rnd) ==
  IF inventory.raised \/ stats.raised THEN Raised
  ELSE ReturnGraph(
         integrateServicePackages(
           BaseGraph(inventory, stats, persona, components, rnd),
           BuildContext(inventory, components, rnd), sf),
         rnd)

BuildOfInventory(inventory, pf, uf, sf, rnd) ==
  BuildOf(inventory, summarizeVehicles(inventory.vehicles),
          loadPersonaMetadata(pf), listReferencedComponents(uf), sf, rnd)

\* buildFleetGraph() on the files given; rnd holds what the calls of nanoid
\* and of the clock return: rnd.fleet, rnd.vehicle[i], rnd.persona, rnd.ui, rnd.now.
buildFleetGraph(dbf, dir, pf, uf, sf, rnd) ==
  BuildOfInventory(loadInventory(dbf, dir), pf, uf, sf, rnd)

\* The calls of graph.nodes.push and graph.edges.push of a block of the
\* build, in the order of the statements: the nodes, then the edges.
Pushes(nodes, edges) ==
  [i \in 1..Len(nodes) |-> [push |-> "node", item |-> nodes[i]]]
  \o [j \in 1..Len(edges) |-> [push |-> "edge", item |-> edges[j]]]

\* All pushes of a build that returns, in the order in which buildFleetGraph
\* and integrateServicePackages make them: the root; per vehicle its node and
\* its PART_OF edge; the persona node and edge; the UI node and edge; per
\* package its node and then its edges.
PushOrder(inventory, stats, persona, components, packages, rnd) ==
  Pushes(<<FleetNode(NodeId("fleet", rnd.fleet), inventory, stats)>>, <<>>)
  \o Flatten([i \in 1..Len(inventory.vehicles) |->
       Pushes(<<VehicleNode(inventory.vehicles[i], rnd.vehicle[i], inventory.source)>>,
              <<PartOfEdge(VehicleNodeId(inventory.vehicles[i], rnd.vehicle[i]),
                           NodeId("fleet", rnd.fleet))>>)])
  \o Pushes(PersonaNodes(persona, NodeId("persona", rnd.persona)),
            PersonaEdges(persona, NodeId("persona", rnd.persona),
                         NodeId("fleet", rnd.fleet)))
  \o Pushes(UiNodes(components, NodeId("ui", rnd.ui)),
            UiEdges(components, NodeId("ui", rnd.ui), NodeId("fleet", rnd.fleet)))
  \o Flatten([i \in 1..Len(packages) |->
       Pushes(<<ServiceNode(packages[i])>>,
              ServiceEdges(packages[i], BuildContext(inventory, components, rnd)))])

\* GET /insights/range: summarizeVehicles(loadInventory().vehicles); an error
\* of loadInventory leaves the handler before summarizeVehicles is called.
InsightsOf(inventory) ==
  IF inventory.raised
  THEN [raised |-> TRUE, total |-> 0, avgRange |-> 0, trims |-> <<>>]
  ELSE summarizeVehicles(inventory.vehicles)

(***************************************************************************)
(* The contents the files can take.                                        *)
(***************************************************************************)
SeqUpTo(S, n) == UNION {[1..k -> S] : k \in 0..n}

VehicleA ==
  Obj([ id |-> Str(<<"a">>), make |-> Str(<<"K">>), model |-> Str(<<"E">>),
        trim |-> Str(<<"s", "p", "o", "r", "t">>), range |-> Num(100),
        vin |-> Str(<<"x">>) ])
VehicleB ==
  Obj([ id |-> Num(1), make |-> Str(<<"T">>), range |-> Str(<<"3", "0", "0">>) ])
VehicleNoId ==
  Obj([ make |-> Str(<<"M">>), model |-> Str(<<"Y">>), range |-> Num(301) ])

VehiclePool == {VehicleA, VehicleB, VehicleNoId}

\* Records with no range and no trim, and with a range that is no number.
VehicleBare == Obj([ make |-> Str(<<"M">>) ])
VehicleTextRange ==
  Obj([ id |-> Str(<<"t">>), trim |-> Str(<<"s", "p", "o", "r", "t">>),
        range |-> Str(<<"n", "/", "a">>) ])

PackageFor(id, vehicleId) ==
  Obj([ id |-> Str(id), vehicleId |-> vehicleId,
        package |-> Str(<<"Hybrid Essentials">>), price |-> Num(1600) ])

PackagePool ==
  { PackageFor(<<"p">>, Str(<<"a">>)), PackageFor(<<"p">>, Str(<<"z">>)),
    PackageFor(<<"q">>, Num(1)), PackageFor(<<"q">>, Str(<<"1">>)) }

AssetPng == <<"a", "-", "b", "-", "c", ".", "p", "n", "g">>
AssetJpg == <<"a", "-", "b", "-", "c", ".", "j", "p", "g">>
AssetUpper == <<"K", "i", "a", "-", "e", "v", "6", ".", "P", "N", "G">>
AssetNotes == <<"n", "o", "t", "e", "s", ".", "t", "x", "t">>

\* Names with an empty first segment and with one segment only.
AssetDash == <<"-", "b", ".", "p", "n", "g">>
AssetSolo == <<"a", ".", "w", "e", "b", "p">>

\* Directory listings: empty, images only, no image at all, and mixed.
AssetListings ==
  { <<>>, <<AssetPng>>, <<AssetUpper>>, <<AssetNotes>>, <<AssetPng, AssetJpg>>,
    <<AssetNotes, AssetPng>>, <<AssetUpper, AssetNotes>>,
    <<AssetJpg, AssetUpper, AssetPng>>, <<AssetDash>>, <<AssetSolo, AssetPng>> }

MissingFile == [st |-> "missing", val |-> Undefined]
JsonFile(v) == [st |-> "json", val |-> v]

DbStates ==
  {[st |-> k, val |-> Undefined] : k \in {"missing", "unreadable", "empty", "invalid"}}
  \cup {JsonFile(Obj([cars |-> Arr(l)])) : l \in SeqUpTo(VehiclePool, MaxVehicles)}
  \cup {JsonFile(Arr(<<>>)), JsonFile(Arr(<<VehicleA>>)),
        JsonFile(Arr(<<VehicleNoId, VehicleB>>))}
  \cup {JsonFile(Obj([cars |-> Arr(<<Null>>)])),
        JsonFile(Obj([cars |-> Arr(<<VehicleA, Null>>)])),
        JsonFile(Arr(<<Null>>)), JsonFile(Obj([cars |-> Arr(<<Num(7)>>)]))}
  \cup {JsonFile(Obj([cars |-> Arr(<<VehicleBare>>)])),
        JsonFile(Obj([cars |-> Arr(<<VehicleA, VehicleTextRange>>)])),
        JsonFile(Obj([cars |-> Arr(<<VehicleTextRange, VehicleBare>>)]))}
  \cup {JsonFile(Obj([users |-> Arr(<<>>)])), JsonFile(Obj([cars |-> Str(<<"x">>)])),
        JsonFile(Null), JsonFile(Num(5))}

SvcStates ==
  {[st |-> k, val |-> Undefined] : k \in {"missing", "unreadable", "empty", "invalid"}}
  \cup {JsonFile(Obj([packages |-> Arr(l)])) : l \in SeqUpTo(PackagePool, MaxPackages)}
  \cup {JsonFile(Obj([packages |-> Arr(<<Null>>)])),
        JsonFile(Obj([packages |-> Arr(<<PackageFor(<<"p">>, Str(<<"a">>)), Null>>)])),
        JsonFile(Obj([packages |-> Arr(<<Str(<<"x">>)>>)]))}
  \cup {JsonFile(Obj([generatedAt |-> Str(<<"now">>)])), JsonFile(Null),
        JsonFile(Arr(<<PackageFor(<<"p">>, Str(<<"a">>))>>)),
        JsonFile(Obj([packages |-> Obj([p |-> Null])]))}

MissingDir == [st |-> "missing", files |-> <<>>]

AssetStates ==
  {MissingDir, [st |-> "unreadable", files |-> <<>>]}
  \cup {[st |-> "dir", files |-> l] : l \in AssetListings}

MissingText == [st |-> "missing", text |-> <<>>]
TextFile(x) == [st |-> "text", text |-> x]

PersonaStates ==
  { MissingText, [st |-> "unreadable", text |-> <<>>], TextFile(<<>>),
    TextFile(<<"c", "o", "n", "s", "t", " ", "d", "e", "f", "a", "u", "l", "t",
               "U", "s", "e", "r", " ", "=", " ", "{", "a", "}", ";">>),
    TextFile(<<"c", "o", "n", "s", "t", "\\", "s", "d", "e", "f", "a", "u", "l",
               "t", "U", "s", "e", "r", "\\", "=", "\\", "{", "s", "}", ";">>) }

UiStates ==
  { MissingText, [st |-> "unreadable", text |-> <<>>], TextFile(<<>>),
    TextFile(<<"<", "A", "b", ">", "<", "C", "d", ">", "<", "A", "b", ">">>),
    TextFile(<<"<", "A", ">", "<", "d", "i", "v", ">">>) }

(***************************************************************************)
(* nanoid(size) and the clock.  nanoid draws size characters at random;    *)
(* the model lets it return the texts made of one repeated character of    *)
(* NanoAlphabet, so two calls can return different texts or the same one.  *)
(***************************************************************************)
NanoAlphabet == {"x", "y"}
nanoid(size) == {[i \in 1..size |-> c] : c \in NanoAlphabet}
Timestamps == {"2025-01-01T00:00:00.000Z"}

\* The draws one build makes given what it loads; a call that is not made
\* has <<>> in its place: nanoid(4) is called only for a vehicle without a
\* truthy id, nanoid(5) only when the persona or the UI node is created.
Draws(vehicles, persona, components) ==
  { [fleet |-> f, vehicle |-> v, persona |-> p, ui |-> u, now |-> n] :
      f \in nanoid(6),
      v \in { w \in [1..Len(vehicles) -> nanoid(4) \cup {<<>>}] :
                \A i \in 1..Len(vehicles) :
                   (w[i] = <<>>) <=> Truthy(Get(vehicles[i], "id")) },
      p \in IF Truthy(persona.persona) THEN nanoid(5) ELSE {<<>>},
      u \in IF Len(components.components) > 0 THEN nanoid(5) ELSE {<<>>},
      n \in Timestamps }

(***************************************************************************)
(* Service hub: serviceComposer.js and the main of its index.js.           *)
(***************************************************************************)
DEFAULT_UI_COMPONENT == "src/Cars.js"
DEFAULT_CARD_COMPONENT == "src/CarCard.js"
PERSONA_FILE == "src/UserInformationContext.js"
PACKAGES_SOURCE == "data/service_packages.json"

\* [raised, cars]: JSON.parse(fs.readFileSync(DB_PATH)) with no try around
\* it, then data?.cars when it is an array and [] otherwise.
loadCars(dbf) ==
  IF dbf.st # "json" THEN [raised |-> TRUE, cars |-> <<>>]
  ELSE [raised |-> FALSE,
        cars |-> IF isArray(GetOpt(dbf.val, "cars"))
                 THEN GetOpt(dbf.val, "cars").a
                 ELSE <<>>]

tiers == <<"Hybrid Essentials", "Performance Max", "Battery Guardian">>
cadence == <<"quarterly", "biannual", "annual">>
workshop == <<"North Loop Service Center", "Downtown EV Lab", "Mobile Crew">>

\* The multiplier of estimatePrice in hundredths: 0.06, 0.08 or 0.04.
MultiplierPercent(tier) ==
  IF tier = "Performance Max" THEN 6
  ELSE IF tier = "Battery Guardian" THEN 8
  ELSE 4

\* Math.round((Number(vehicle.price) || 20000) * multiplier)
estimatePrice(vehicle, tier) ==
  RoundDiv((IF NumberOrZero(Get(vehicle, "price")) = 0
            THEN 20000
            ELSE NumberOrZero(Get(vehicle, "price"))) * MultiplierPercent(tier),
           100)

buildTasks(vehicle) ==
  Arr(<< Str(<<"Inspect ">> \o ToText(Get(vehicle, "make")) \o <<" ">>
               \o ToText(Get(vehicle, "modelNumber")) \o <<" battery health">>),
         Str(<<"Update telematics firmware">>),
         Str(<<"Run ADAS calibration">>),
         Str(<<"Generate report for MyCarHub dashboard">>) >>)

\* The package of the vehicle at index idx (from 0) of the cars array.
buildPackage(vehicle, idx) ==
  Obj([ id |-> Str(<<"svc-">> \o ToText(OrValue(Get(vehicle, "id"), Num(idx)))),
        vehicleId |-> Get(vehicle, "id"),
        package |-> Str(<<tiers[(idx % 3) + 1]>>),
        price |-> Num(estimatePrice(vehicle, tiers[(idx % 3) + 1])),
        cadence |-> Str(<<cadence[(idx % 3) + 1]>>),
        workshop |-> Str(<<workshop[(idx % 3) + 1]>>),
        dependencies |-> Obj([ uiComponent |-> Str(<<DEFAULT_UI_COMPONENT>>),
                               cardComponent |-> Str(<<DEFAULT_CARD_COMPONENT>>),
                               personaFile |-> Str(<<PERSONA_FILE>>) ]),
        serviceTasks |-> buildTasks(vehicle),
        source |-> Str(<<PACKAGES_SOURCE>>) ])

\* The payload once the cars are loaded; vehicle.id throws on a null element.
PayloadOf(cars, now) ==
  IF \E i \in 1..Len(cars) : AccessRaises(cars[i])
  THEN Raised
  ELSE [raised |-> FALSE,
        payload |->
          Obj([ generatedAt |-> Str(<<now>>),
                upstream |-> Obj([ carhubDb |-> Str(<<DB_PATH>>),
                                   analyticsGraphNamespace |-> Str(<<"carhub">>) ]),
                packages |-> Arr([i \in 1..Len(cars) |->
                                    buildPackage(cars[i], i - 1)]) ])]

\* [raised, payload]
composeServicePackages(dbf, now) ==
  IF loadCars(dbf).raised THEN Raised ELSE PayloadOf(loadCars(dbf).cars, now)

\* JSON.stringify leaves out the properties of an object whose value is
\* undefined.
WithoutUndefined(v) ==
  Obj([k \in {f \in DOMAIN v.o : v.o[f] # Undefined} |-> v.o[k]])

\* The artifact as a later JSON.parse reads it: JSON.stringify(payload)
\* written to data/service_packages.json.
writeServicePackages(payload) ==
  JsonFile(Obj([ generatedAt |-> payload.o.generatedAt,
                 upstream |-> payload.o.upstream,
                 packages |-> Arr([i \in 1..Len(payload.o.packages.a) |->
                                     WithoutUndefined(payload.o.packages.a[i])]) ]))

(***************************************************************************)
(* State: the five upstream files, the number of file changes so far, the  *)
(* request being served ("idle" when none) and its response.  The server   *)
(* is single-threaded and every handler is synchronous: one request is     *)
(* served at a time, from the files as they are at that moment.  lastBuild  *)
(* is what an observer notes of the previous response of GET /graph/nodes: *)
(* its topology and the files it was built from (SpecRebuilds); the        *)
(* service itself keeps no such record.                                    *)
(***************************************************************************)
NoResult == [raised |-> FALSE]

Files == <<db, assets, personaFile, uiFile, svcFile>>

NodeTypes == {"FleetInventory", "Vehicle", "Persona", "UIComponentSet", "ServicePackage"}

Relations == {"PART_OF", "TARGETS", "VISUALIZES", "SERVICES", "SURFACES_IN", "ALIGN_WITH"}

\* The topology of a response of GET /graph/nodes: how many nodes of each type
\* and how many edges of each relation it has.
Topology(graph) ==
  IF graph.raised THEN [raised |-> TRUE]
  ELSE [ raised |-> FALSE,
         nodes |-> [t \in NodeTypes |->
                      Cardinality({i \in DOMAIN graph.nodes : graph.nodes[i].type = t})],
         edges |-> [r \in Relations |->
                      Cardinality({j \in DOMAIN graph.edges : graph.edges[j].relation = r})] ]

NoBuild == [built |-> FALSE, files |-> <<>>, topology |-> [raised |-> FALSE]]

\* The service starts against a checkout where none of the upstream files is
\* there yet, or against one where all of them are.
FreshCheckout ==
  [ db |-> MissingFile, assets |-> MissingDir, personaFile |-> MissingText,
    uiFile |-> MissingText, svcFile |-> MissingFile ]

PopulatedCheckout ==
  [ db |-> JsonFile(Obj([cars |-> Arr(<<VehicleA, VehicleNoId>>)])),
    assets |-> [st |-> "dir",
                files |-> <<AssetPng>>],
    personaFile |-> TextFile(<<"c", "o", "n", "s", "t", " ", "d", "e", "f", "a", "u",
                               "l", "t", "U", "s", "e", "r", " ", "=", " ", "{", "a",
                               "}", ";">>),
    uiFile |-> TextFile(<<"<", "A", "b", ">", "<", "C", "d", ">", "<", "A", "b", ">">>),
    svcFile |-> JsonFile(Obj([packages |-> Arr(<<PackageFor(<<"p">>, Str(<<"a">>))>>)])) ]

Init ==
  /\ \E c \in {FreshCheckout, PopulatedCheckout} :
       /\ db = c.db
       /\ assets = c.assets
       /\ personaFile = c.personaFile
       /\ uiFile = c.uiFile
       /\ svcFile = c.svcFile
  /\ writes = 0
  /\ op = "idle"
  /\ result = NoResult
  /\ lastBuild = NoBuild

Written ==
  /\ writes < MaxWrites
  /\ writes' = writes + 1
  /\ op' = "idle"
  /\ result' = NoResult
  /\ UNCHANGED lastBuild

\* Something outside the service replaces a file (or removes it, or makes it
\* unreadable).
WriteDb ==
  /\ \E f \in DbStates \ {db} : db' = f
  /\ Written
  /\ UNCHANGED <<assets, personaFile, uiFile, svcFile>>

WriteAssets ==
  /\ \E d \in AssetStates \ {assets} : assets' = d
  /\ Written
  /\ UNCHANGED <<db, personaFile, uiFile, svcFile>>

WritePersona ==
  /\ \E f \in PersonaStates \ {personaFile} : personaFile' = f
  /\ Written
  /\ UNCHANGED <<db, assets, uiFile, svcFile>>

WriteUi ==
  /\ \E f \in UiStates \ {uiFile} : uiFile' = f
  /\ Written
  /\ UNCHANGED <<db, assets, personaFile, svcFile>>

WriteSvc ==
  /\ \E f \in SvcStates \ {svcFile} : svcFile' = f
  /\ Written
  /\ UNCHANGED <<db, assets, personaFile, uiFile>>

\* GET /graph/nodes
BuildFleetGraph ==
  /\ op = "idle"
  /\ \E rnd \in Draws(loadInventory(db, assets).vehicles,
                       loadPersonaMetadata(personaFile),
                       listReferencedComponents(uiFile)) :
       result' = buildFleetGraph(db, assets, personaFile, uiFile, svcFile, rnd)
  /\ op' = "buildFleetGraph"
  /\ UNCHANGED <<db, assets, personaFile, uiFile, svcFile, writes, lastBuild>>

\* GET /health calls loadInventory() and counts the vehicles.
LoadInventory ==
  /\ op = "idle"
  /\ result' = loadInventory(db, assets)
  /\ op' = "loadInventory"
  /\ UNCHANGED <<db, assets, personaFile, uiFile, svcFile, writes, lastBuild>>

\* GET /insights/range
InsightsRange ==
  /\ op = "idle"
  /\ result' = InsightsOf(loadInventory(db, assets))
  /\ op' = "summarizeVehicles"
  /\ UNCHANGED <<db, assets, personaFile, uiFile, svcFile, writes, lastBuild>>

\* The response is delivered (or the error reported) and the server waits
\* for the next request.
Respond ==
  /\ op # "idle"
  /\ op' = "idle"
  /\ result' = NoResult
  /\ UNCHANGED <<db, assets, personaFile, uiFile, svcFile, writes, lastBuild>>

\* The response of GET /graph/nodes is delivered, and an observer of the
\* service notes its topology and the files it was built from.
RespondObserved ==
  /\ op = "buildFleetGraph"
  /\ op' = "idle"
  /\ result' = NoResult
  /\ lastBuild' = [built |-> TRUE, files |-> Files, topology |-> Topology(result)]
  /\ UNCHANGED <<db, assets, personaFile, uiFile, svcFile, writes>>

Next ==
  \/ WriteDb
  \/ WriteAssets
  \/ WritePersona
  \/ WriteUi
  \/ WriteSvc
  \/ BuildFleetGraph
  \/ LoadInventory
  \/ InsightsRange
  \/ Respond

Spec == Init /\ [][Next]_vars

\* The contents db.json and the artifact take while an observer compares
\* successive responses of GET /graph/nodes: with and without vehicles that
\* have no id of their own, with and without packages, and degraded.
ObservedDbStates ==
  { MissingFile,
    [st |-> "invalid", val |-> Undefined],
    JsonFile(Obj([cars |-> Arr(<<VehicleA>>)])),
    JsonFile(Obj([cars |-> Arr(<<VehicleA, VehicleNoId>>)])),
    JsonFile(Obj([cars |-> Arr(<<VehicleNoId, VehicleNoId>>)])),
    JsonFile(Obj([cars |-> Arr(<<Null>>)])) }

ObservedSvcStates ==
  { MissingFile,
    [st |-> "invalid", val |-> Undefined],
    JsonFile(Obj([packages |-> Arr(<<PackageFor(<<"p">>, Str(<<"a">>))>>)])),
    JsonFile(Obj([packages |-> Arr(<<PackageFor(<<"p">>, Str(<<"a">>)),
                                     PackageFor(<<"p">>, Str(<<"z">>))>>)])),
    JsonFile(Obj([packages |-> Arr(<<PackageFor(<<"q">>, Num(1))>>)])) }

ChangeDb ==
  /\ \E f \in ObservedDbStates \ {db} : db' = f
  /\ Written
  /\ UNCHANGED <<assets, personaFile, uiFile, svcFile>>

ChangeSvc ==
  /\ \E f \in ObservedSvcStates \ {svcFile} : svcFile' = f
  /\ Written
  /\ UNCHANGED <<db, assets, personaFile, uiFile>>

\* The service under an observer who compares successive responses of
\* GET /graph/nodes while the files change in between.
NextRebuilds ==
  \/ ChangeDb
  \/ WriteAssets
  \/ WritePersona
  \/ WriteUi
  \/ ChangeSvc
  \/ BuildFleetGraph
  \/ RespondObserved

SpecRebuilds == Init /\ [][NextRebuilds]_vars

(***************************************************************************)
(* The service hub run together with the analytics service: db.json        *)
(* changes, the hub composes and writes the artifact, the graph is built.  *)
(***************************************************************************)
\* main of the service hub: composeServicePackages(), then
\* writeServicePackages(payload); when the compose step throws, nothing is
\* written and the process exits with the error.
ServiceHubMain ==
  /\ op = "idle"
  /\ \E now \in Timestamps :
       /\ result' = composeServicePackages(db, now)
       /\ svcFile' = IF composeServicePackages(db, now).raised
                     THEN svcFile
                     ELSE writeServicePackages(composeServicePackages(db, now).payload)
  /\ op' = "composeServicePackages"
  /\ UNCHANGED <<db, assets, personaFile, uiFile, writes, lastBuild>>

\* A vehicle whose id is the text "1", where the id of VehicleB is the number 1.
VehicleOne == Obj([ id |-> Str(<<"1">>), make |-> Str(<<"T">>), range |-> Num(300) ])

\* The states db.json takes while the hub and the service both run on it:
\* missing, cars arrays of vehicles with ids (repeated ids among them, and
\* the ids 1 and "1"), of a vehicle without id, of null, and an array that
\* is not under `cars`.
HubDbStates ==
  {MissingFile}
  \cup {JsonFile(Obj([cars |-> Arr(l)])) : l \in SeqUpTo({VehicleA, VehicleB}, MaxVehicles)}
  \cup {JsonFile(Obj([cars |-> Arr(<<VehicleA, VehicleNoId>>)])),
        JsonFile(Obj([cars |-> Arr(<<VehicleB, VehicleNoId>>)])),
        JsonFile(Obj([cars |-> Arr(<<VehicleB, VehicleOne>>)])),
        JsonFile(Obj([cars |-> Arr(<<Null>>)])),
        JsonFile(Arr(<<VehicleA>>))}

\* db.json is edited between runs of the hub and requests to the service.
EditDb ==
  /\ op = "idle"
  /\ \E f \in HubDbStates \ {db} : db' = f
  /\ UNCHANGED <<assets, personaFile, uiFile, svcFile, writes, op, result, lastBuild>>

NextHub ==
  \/ EditDb
  \/ ServiceHubMain
  \/ BuildFleetGraph
  \/ Respond

SpecHub == Init /\ [][NextHub]_vars

(***************************************************************************)
(* Properties of the graph buildFleetGraph returns.                        *)
(***************************************************************************)
\* The request served is GET /graph/nodes and buildFleetGraph returned a graph.
GraphReturned == op = "buildFleetGraph" /\ ~result.raised

NodesOfType(type) == {i \in DOMAIN result.nodes : result.nodes[i].type = type}

\* The edges of one relation that leave the node with the given id.
EdgesFrom(id, relation) ==
  {j \in DOMAIN result.edges :
     result.edges[j].from = id /\ result.edges[j].relation = relation}

EdgesOf(relation) == {j \in DOMAIN result.edges : result.edges[j].relation = relation}

NodeIds == {result.nodes[i].id : i \in DOMAIN result.nodes}

\* The id of the root node, when there is exactly one.
FleetId == result.nodes[CHOOSE i \in NodesOfType("FleetInventory") : TRUE].id

\* C1: whatever the five upstream sources hold, a graph returned by
\* buildFleetGraph() has exactly one node of type FleetInventory.
C1_OneFleetInventoryNode ==
  GraphReturned => Cardinality(NodesOfType("FleetInventory")) = 1

\* A build that returned a graph with vehicles and service packages in it.
C1_Witness ==
  /\ GraphReturned
  /\ NodesOfType("Vehicle") # {}
  /\ NodesOfType("ServicePackage") # {}

\* C2: every Vehicle node has exactly one outgoing PART_OF edge, and it leads
\* to the FleetInventory node (also when vehicles share an id or have none).
C2_OnePartOfEdgePerVehicle ==
  GraphReturned =>
    \A i \in NodesOfType("Vehicle") :
      /\ Cardinality(EdgesFrom(result.nodes[i].id, "PART_OF")) = 1
      /\ \A j \in EdgesFrom(result.nodes[i].id, "PART_OF") : result.edges[j].to = FleetId

\* C3: no two nodes of a returned graph have the same id.
C3_NodeIdsUnique ==
  GraphReturned =>
    \A i, j \in DOMAIN result.nodes : i # j => result.nodes[i].id # result.nodes[j].id

\* C4: in a returned graph both ends of every edge are ids of nodes of that
\* graph.
C4_EdgeEndsExist ==
  GraphReturned =>
    \A j \in DOMAIN result.edges :
      result.edges[j].from \in NodeIds /\ result.edges[j].to \in NodeIds

\* A graph with an edge to a vehicle and an edge to the UI node.
C4_Witness ==
  /\ GraphReturned
  /\ EdgesOf("SERVICES") # {}
  /\ EdgesOf("SURFACES_IN") # {}
  /\ EdgesOf("PART_OF") # {}

\* The packages of the artifact, as read back from the file in the state.
ArtifactPackages ==
  IF svcFile.st = "json" /\ GetOpt(svcFile.val, "packages").t = "array"
  THEN GetOpt(svcFile.val, "packages").a
  ELSE <<>>

\* The vehicles of the inventory the build loaded.
InventoryVehicles == loadInventory(db, assets).vehicles

\* Package pkg names a vehicle of the inventory that has a non-empty id.
NamesInventoryVehicle(pkg) ==
  \E i \in DOMAIN InventoryVehicles :
    /\ Truthy(Get(InventoryVehicles[i], "id"))
    /\ Get(InventoryVehicles[i], "id") = Get(pkg, "vehicleId")

\* C5: every package of the artifact has its ServicePackage node, and that
\* node has a SERVICES edge exactly when the package's vehicleId is the id of
\* an inventory vehicle with a non-empty id; otherwise it has none.
C5_ServicesEdgeIffVehicleKnown ==
  GraphReturned =>
    \A k \in DOMAIN ArtifactPackages :
      LET pkg == ArtifactPackages[k]
      IN /\ \E i \in NodesOfType("ServicePackage") :
              result.nodes[i].id = ServiceNodeId(pkg)
         /\ (EdgesFrom(ServiceNodeId(pkg), "SERVICES") # {}) <=> NamesInventoryVehicle(pkg)

\* C6: every ServicePackage node has exactly one outgoing ALIGN_WITH edge, and
\* it leads to the FleetInventory node.
C6_OneAlignWithEdgePerPackage ==
  GraphReturned =>
    \A i \in NodesOfType("ServicePackage") :
      /\ Cardinality(EdgesFrom(result.nodes[i].id, "ALIGN_WITH")) = 1
      /\ \A j \in EdgesFrom(result.nodes[i].id, "ALIGN_WITH") : result.edges[j].to = FleetId

\* C7: a ServicePackage node has a SURFACES_IN edge exactly when the graph has
\* a UIComponentSet node; the edge is then the only one of the node and leads
\* to the UIComponentSet node.
C7_SurfacesInIffUiNode ==
  GraphReturned =>
    \A i \in NodesOfType("ServicePackage") :
      IF NodesOfType("UIComponentSet") = {}
      THEN EdgesFrom(result.nodes[i].id, "SURFACES_IN") = {}
      ELSE /\ Cardinality(EdgesFrom(result.nodes[i].id, "SURFACES_IN")) = 1
           /\ \A j \in EdgesFrom(result.nodes[i].id, "SURFACES_IN") :
                \E u \in NodesOfType("UIComponentSet") :
                  result.edges[j].to = result.nodes[u].id

\* C8: buildFleetGraph() never raises, whatever state the upstream sources
\* are in.
C8_BuildNeverRaises == op = "buildFleetGraph" => ~result.raised

\* The artifact is missing, unreadable, not JSON, or JSON without a packages
\* array.
ArtifactDegraded ==
  \/ svcFile.st # "json"
  \/ GetOpt(svcFile.val, "packages").t # "array"

EmptyArtifact == JsonFile(Obj([packages |-> Arr(<<>>)]))

PackageRelations == {"SERVICES", "SURFACES_IN", "ALIGN_WITH"}

\* C9: with a degraded artifact the build does not raise and returns a graph
\* with no ServicePackage node and no SERVICES, SURFACES_IN or ALIGN_WITH
\* edge, which is the graph it returns for an artifact with an empty package
\* list (for the same draws of nanoid).
C9_DegradedArtifactIsEmptyList ==
  (op = "buildFleetGraph" /\ ArtifactDegraded) =>
    /\ ~result.raised
    /\ NodesOfType("ServicePackage") = {}
    /\ \A j \in DOMAIN result.edges : result.edges[j].relation \notin PackageRelations
    /\ \E rnd \in Draws(InventoryVehicles, loadPersonaMetadata(personaFile),
                        listReferencedComponents(uiFile)) :
         result = buildFleetGraph(db, assets, personaFile, uiFile, EmptyArtifact, rnd)

(***************************************************************************)
(* Properties of loadInventory.                                            *)
(***************************************************************************)
\* The primary file gives no vehicle: it is missing, unreadable, empty, not
\* JSON, JSON of another shape, or JSON with an empty list.
PrimaryGivesNothing ==
  \/ db.st # "json"
  \/ /\ GetOpt(db.val, "cars").t # "array"
     /\ db.val.t # "array"
  \/ /\ GetOpt(db.val, "cars").t = "array"
     /\ GetOpt(db.val, "cars").a = <<>>
  \/ /\ GetOpt(db.val, "cars").t # "array"
     /\ db.val.t = "array"
     /\ db.val.a = <<>>

ImageFilesListed == SelectSeq(assets.files, IsImageFile)

\* What C10 promises of the value loadInventory returned.
SyntheticInventoryReturned ==
  /\ ~result.raised
  /\ Len(result.vehicles) > 0
  /\ result.source = ASSETS_DIR
  /\ result.source # DB_PATH
  /\ Len(result.vehicles) = Len(ImageFilesListed)
  /\ \A i \in DOMAIN result.vehicles :
       Get(result.vehicles[i], "image") = Str(<<"assets/cars/">> \o ImageFilesListed[i])

C11_SourceProducedTheVehicles ==
  /\ (op = "loadInventory" /\ ~result.raised) =>
       /\ (result.source = DB_PATH) <=> ~PrimaryGivesNothing
       /\ (result.source = ASSETS_DIR) <=>
            (PrimaryGivesNothing /\ assets.st = "dir" /\ Len(ImageFilesListed) > 0)
       /\ Len(result.vehicles) > 0
  /\ GraphReturned =>
       \A i \in NodesOfType("FleetInventory") \cup NodesOfType("Vehicle") :
         result.nodes[i].source = loadInventory(db, assets).source

(***************************************************************************)
(* Properties of successive builds (SpecRebuilds).                         *)
(***************************************************************************)
\* C12: a build from files that have not changed since the previous build
\* returns a graph with the same number of nodes of each type and of edges of
\* each relation as the previous one, whatever ids nanoid gave the two.
C12_RebuildKeepsTopology ==
  (op = "buildFleetGraph" /\ lastBuild.built /\ lastBuild.files = Files)
  => Topology(result) = lastBuild.topology

\* A second build from unchanged files whose graph has a vehicle with an id
\* drawn from nanoid and a UI node.
C12_Witness ==
  /\ GraphReturned
  /\ lastBuild.built
  /\ lastBuild.files = Files
  /\ \E i \in NodesOfType("Vehicle") : ~Truthy(GetOpt(result.nodes[i].payload, "id"))
  /\ NodesOfType("UIComponentSet") # {}

\* The topology the files of the current state determine: one root, one
\* Vehicle node and PART_OF edge per inventory vehicle, a Persona node with its
\* TARGETS edge when there is a persona, a UIComponentSet node with its
\* VISUALIZES edge when components are referenced, and per package of the
\* artifact a node, an ALIGN_WITH edge, a SURFACES_IN edge when there is a UI
\* node and a SERVICES edge when it names an inventory vehicle.
PersonaCount == IF Truthy(loadPersonaMetadata(personaFile).persona) THEN 1 ELSE 0

UiCount == IF Len(listReferencedComponents(uiFile).components) > 0 THEN 1 ELSE 0

TopologyOfFiles ==
  [ raised |-> FALSE,
    nodes |-> [t \in NodeTypes |->
      CASE t = "FleetInventory" -> 1
        [] t = "Vehicle" -> Len(InventoryVehicles)
        [] t = "Persona" -> PersonaCount
        [] t = "UIComponentSet" -> UiCount
        [] t = "ServicePackage" -> Len(ArtifactPackages)],
    edges |-> [r \in Relations |->
      CASE r = "PART_OF" -> Len(InventoryVehicles)
        [] r = "TARGETS" -> PersonaCount
        [] r = "VISUALIZES" -> UiCount
        [] r = "SERVICES" ->
             Cardinality({k \in DOMAIN ArtifactPackages :
                            NamesInventoryVehicle(ArtifactPackages[k])})
        [] r = "SURFACES_IN" -> UiCount * Len(ArtifactPackages)
        [] r = "ALIGN_WITH" -> Len(ArtifactPackages)] ]

\* C13: whatever builds and file changes came before, the topology of a
\* returned graph is the one the files determine at the time of the call;
\* nothing of an earlier build or of earlier file contents is in it.
C13_BuildReadsFilesAfresh ==
  GraphReturned => Topology(result) = TopologyOfFiles

\* A graph returned after an earlier build and a file change, with a topology
\* other than the earlier build's.
C13_Witness ==
  /\ GraphReturned
  /\ lastBuild.built
  /\ lastBuild.files # Files
  /\ ~lastBuild.topology.raised
  /\ lastBuild.topology # Topology(result)

(***************************************************************************)
(* Properties of the synthetic inventory.                                  *)
(***************************************************************************)
\* The vehicle derived from file when it is the only file of the directory.
DerivedAlone(file) == loadAssetsInventory([st |-> "dir", files |-> <<file>>]).vehicles[1]

SynthesizedReturned ==
  op = "loadInventory" /\ ~result.raised /\ result.source = ASSETS_DIR

\* C14: the vehicle derived from an asset file has the same id, make, model,
\* trim, price, range, battery and image whatever other files the directory
\* holds and wherever the file stands in the listing: they are the fields
\* derived from that file alone.
C14_DerivationDependsOnNameOnly ==
  /\ SynthesizedReturned =>
       /\ Len(result.vehicles) = Len(ImageFilesListed)
       /\ \A i \in DOMAIN result.vehicles :
            result.vehicles[i] = DerivedAlone(ImageFilesListed[i])
  /\ (GraphReturned /\ loadInventory(db, assets).source = ASSETS_DIR) =>
       \A i \in DOMAIN ImageFilesListed :
         \E n \in NodesOfType("Vehicle") :
           result.nodes[n].payload = DerivedAlone(ImageFilesListed[i])

\* An inventory synthesized from a listing of three images, the last of them
\* a file that other listings hold alone.
C14_Witness ==
  /\ SynthesizedReturned
  /\ Len(result.vehicles) = 3
  /\ result.vehicles[3] = DerivedAlone(AssetPng)

\* The make-model-variant of a file name, hyphen-joined and lower-cased.
LowerCasedName(file) ==
  toLowerCase(parseAssetName(file).make \o <<"-">> \o parseAssetName(file).model
                \o <<"-">> \o parseAssetName(file).variant)

\* C15: the id of a synthesized vehicle is the lower-cased, hyphen-joined
\* make-model-variant of its file name, also for names with upper-case
\* letters, and two distinct files of one directory never get the same id.
C15_SyntheticIdLowerCasedAndDistinct ==
  SynthesizedReturned =>
    /\ \A i \in DOMAIN result.vehicles :
         Get(result.vehicles[i], "id") = Str(LowerCasedName(ImageFilesListed[i]))
    /\ \A i, j \in DOMAIN result.vehicles :
         ImageFilesListed[i] # ImageFilesListed[j] =>
           Get(result.vehicles[i], "id") # Get(result.vehicles[j], "id")

(***************************************************************************)
(* Properties of summarizeVehicles (GET /insights/range).                  *)
(***************************************************************************)
\* summarizeVehicles returned a summary of the inventory's vehicles.
SummaryReturned == op = "summarizeVehicles" /\ ~result.raised

\* C16: the total is the number of vehicles, and the summary of the empty
\* list is exactly { total: 0, avgRange: 0, trims: [] }.
C16_TotalIsVehicleCount ==
  SummaryReturned =>
    /\ result.total = Len(InventoryVehicles)
    /\ InventoryVehicles = <<>> =>
         result = [raised |-> FALSE, total |-> 0, avgRange |-> 0, trims |-> <<>>]

\* The summary of an inventory that is empty although db.json parses.
C16_Witness ==
  /\ SummaryReturned
  /\ db.st = "json"
  /\ InventoryVehicles = <<>>
  /\ result.avgRange = 0

\* The range a vehicle counts with: its number, the number a string of digits
\* denotes, and 0 when the range is missing or no number.
CountedRange(vehicle) ==
  IF Get(vehicle, "range").t = "number" THEN Get(vehicle, "range").n
  ELSE IF /\ Get(vehicle, "range").t = "string"
          /\ \A i \in DOMAIN Get(vehicle, "range").s : IsDigit(Get(vehicle, "range").s[i])
  THEN DigitsValue(Get(vehicle, "range").s)
  ELSE 0

RECURSIVE SumOfCounted(_)
SumOfCounted(vehicles) ==
  IF vehicles = <<>> THEN 0
  ELSE CountedRange(Head(vehicles)) + SumOfCounted(Tail(vehicles))

\* C17: for a non-empty list avgRange is the sum of the counted ranges divided
\* by the number of vehicles and rounded to the nearest integer (a half goes
\* up): avgRange - 1/2 <= S / total < avgRange + 1/2.
C17_AvgRangeIsRoundedMean ==
  (SummaryReturned /\ Len(InventoryVehicles) > 0) =>
    /\ (2 * result.avgRange - 1) * Len(InventoryVehicles) <= 2 * SumOfCounted(InventoryVehicles)
    /\ 2 * SumOfCounted(InventoryVehicles) < (2 * result.avgRange + 1) * Len(InventoryVehicles)

\* The summary of two vehicles whose mean range ends in a half.
C17_Witness ==
  /\ SummaryReturned
  /\ Len(InventoryVehicles) = 2
  /\ SumOfCounted(InventoryVehicles) = 401
  /\ result.avgRange = 201

\* The trim a vehicle counts with: "standard" when it has none.
TrimOf(vehicle) ==
  IF Truthy(Get(vehicle, "trim")) THEN Get(vehicle, "trim")
  ELSE Str(<<"s", "t", "a", "n", "d", "a", "r", "d">>)

\* The position of the first vehicle with the given trim.
FirstWithTrim(trim) ==
  CHOOSE i \in DOMAIN InventoryVehicles :
    /\ TrimOf(InventoryVehicles[i]) = trim
    /\ \A j \in 1..(i - 1) : TrimOf(InventoryVehicles[j]) # trim

\* C18: trims holds the trim of every vehicle ("standard" for a vehicle
\* without one) and nothing else, each once, in the order in which the trims
\* first appear in the list.
C18_TrimsOnceInOrderOfAppearance ==
  SummaryReturned =>
    /\ \A i \in DOMAIN InventoryVehicles :
         \E a \in DOMAIN result.trims : result.trims[a] = TrimOf(InventoryVehicles[i])
    /\ \A a \in DOMAIN result.trims :
         \E i \in DOMAIN InventoryVehicles : result.trims[a] = TrimOf(InventoryVehicles[i])
    /\ \A a, b \in DOMAIN result.trims : a # b => result.trims[a] # result.trims[b]
    /\ \A a, b \in DOMAIN result.trims :
         a < b => FirstWithTrim(result.trims[a]) < FirstWithTrim(result.trims[b])

\* The summary of two vehicles with the same trim.
C18_Witness ==
  /\ SummaryReturned
  /\ Len(InventoryVehicles) = 2
  /\ TrimOf(InventoryVehicles[1]) = TrimOf(InventoryVehicles[2])
  /\ Len(result.trims) = 1

(***************************************************************************)
(* Properties of the Persona and UIComponentSet nodes.                     *)
(***************************************************************************)
\* C19: a graph has at most one Persona node; it has one exactly when
\* loadPersonaMetadata returned a persona that is not null, and then it has
\* exactly one TARGETS edge, which leads from the Persona node to the root.
C19_PersonaNodeIffPersona ==
  GraphReturned =>
    /\ Cardinality(NodesOfType("Persona")) <= 1
    /\ (NodesOfType("Persona") # {}) <=> (loadPersonaMetadata(personaFile).persona # Null)
    /\ NodesOfType("Persona") # {} =>
         /\ Cardinality(EdgesOf("TARGETS")) = 1
         /\ \A j \in EdgesOf("TARGETS") :
              /\ \E i \in NodesOfType("Persona") : result.edges[j].from = result.nodes[i].id
              /\ result.edges[j].to = FleetId

\* A graph with a Persona node that carries the snippet of the file.
C19_Witness ==
  /\ GraphReturned
  /\ \E i \in NodesOfType("Persona") :
       result.nodes[i].personaSnippet = loadPersonaMetadata(personaFile).persona
  /\ NodesOfType("Vehicle") # {}

\* C20: a graph has at most one UIComponentSet node; it has one exactly when
\* the list of referenced components is not empty, the node holds the whole
\* list, and the graph then has exactly one VISUALIZES edge, which leads from
\* the UIComponentSet node to the root.
C20_UiNodeIffComponents ==
  GraphReturned =>
    /\ Cardinality(NodesOfType("UIComponentSet")) <= 1
    /\ (NodesOfType("UIComponentSet") # {})
         <=> (Len(listReferencedComponents(uiFile).components) > 0)
    /\ \A i \in NodesOfType("UIComponentSet") :
         result.nodes[i].components = listReferencedComponents(uiFile).components
    /\ NodesOfType("UIComponentSet") # {} =>
         /\ Cardinality(EdgesOf("VISUALIZES")) = 1
         /\ \A j \in EdgesOf("VISUALIZES") :
              /\ \E i \in NodesOfType("UIComponentSet") :
                   result.edges[j].from = result.nodes[i].id
              /\ result.edges[j].to = FleetId

\* A graph with a UIComponentSet node that holds two components.
C20_Witness ==
  /\ GraphReturned
  /\ \E i \in NodesOfType("UIComponentSet") : Len(result.nodes[i].components) = 2

(***************************************************************************)
(* Properties of the persona loader and the component scanner.             *)
(***************************************************************************)
Blank == {" "}

\* Index of the first "};" at or after i, 0 when there is none.
ClosingAt(s, i) ==
  IF i = 0 \/ \A m \in i..(Len(s) - 1) : ~(s[m] = "}" /\ s[m + 1] = ";")
  THEN 0
  ELSE CHOOSE m \in i..(Len(s) - 1) :
         /\ s[m] = "}" /\ s[m + 1] = ";"
         /\ \A n \in i..(m - 1) : ~(s[n] = "}" /\ s[n + 1] = ";")

\* The object literal of an assignment `const <name> = { ... };` that starts
\* at i, as a reader of the file sees it; <<>> when no assignment starts at i.
AssignedLiteralAt(s, i) ==
  LET a == MatchLit(s, i, <<"c", "o", "n", "s", "t">>)
      b == RunEnd(s, a, Blank)
      c == RunEnd(s, IF b > a THEN b ELSE 0, AlnumChars)
      d == MatchLit(s, RunEnd(s, IF c > b THEN c ELSE 0, Blank), <<"=">>)
      g == MatchLit(s, RunEnd(s, d, Blank), <<"{">>)
      m == ClosingAt(s, IF g = 0 THEN 0 ELSE g + 1)
  IN IF m = 0 THEN <<>> ELSE SubSeq(s, g - 1, m)

AssignedLiteralIn(s, positions) ==
  IF positions = {} THEN <<>> ELSE AssignedLiteralAt(s, FirstOf(positions))

\* The object literal of the first such assignment of a readable file.
AssignedLiteral(f) ==
  IF f.st # "text" THEN <<>>
  ELSE AssignedLiteralIn(f.text,
         {i \in 1..Len(f.text) : AssignedLiteralAt(f.text, i) # <<>>})

\* C21: the persona of a build is the text of the object literal whenever the
\* persona file is readable and holds an assignment `const <name> = { ... };`
\* and there is no persona when the file is unreadable or holds no such
\* assignment.
C21_PersonaIsAssignedLiteral ==
  GraphReturned =>
    IF AssignedLiteral(personaFile) = <<>>
    THEN NodesOfType("Persona") = {}
    ELSE \E i \in NodesOfType("Persona") :
           result.nodes[i].personaSnippet = Str(AssignedLiteral(personaFile))

\* The identifiers that follow a "<" and start with an upper-case letter, of
\* any length, from index i on.
RECURSIVE TagNames(_, _)
TagNames(s, i) ==
  IF i >= Len(s) THEN <<>>
  ELSE IF s[i] = "<" /\ IsUpper(s[i + 1])
  THEN <<SubSeq(s, i + 1, RunEnd(s, i + 1, AlnumChars) - 1)>>
         \o TagNames(s, RunEnd(s, i + 1, AlnumChars))
  ELSE TagNames(s, i + 1)

\* The elements of a list, each once, in the order of first appearance.
RECURSIVE OnceEach(_)
OnceEach(list) ==
  IF list = <<>> THEN <<>>
  ELSE <<Head(list)>> \o
       OnceEach(SelectSeq(Tail(list), LAMBDA x : x # Head(list)))

ExpectedComponents ==
  IF uiFile.st # "text" THEN <<>> ELSE OnceEach(TagNames(uiFile.text, 1))

\* C22: the components of a build are the distinct identifiers that follow a
\* "<" and start with an upper-case letter, single-letter identifiers
\* included, each once, in the order of first appearance; the list is empty
\* when the page file is unreadable.
C22_ComponentsAreUpperCaseTags ==
  GraphReturned =>
    IF ExpectedComponents = <<>>
    THEN NodesOfType("UIComponentSet") = {}
    ELSE \E i \in NodesOfType("UIComponentSet") :
           result.nodes[i].components = ExpectedComponents

(***************************************************************************)
(* Properties of the payload of a Vehicle node.                            *)
(***************************************************************************)
PayloadKeys == {"id", "make", "model", "trim", "range", "price", "battery", "image"}

KeysOf(v) == IF v.t = "object" THEN DOMAIN v.o ELSE {}

\* The payload is the projection of the vehicle on the allow-listed keys.
ProjectionOf(payload, vehicle) ==
  /\ KeysOf(payload) \subseteq PayloadKeys
  /\ \A k \in PayloadKeys \cap KeysOf(vehicle) :
       k \in KeysOf(payload) /\ payload.o[k] = vehicle.o[k]

\* C23: the payload of a Vehicle node holds allow-listed keys only, and for
\* every allow-listed key that the vehicle defines the payload holds the
\* vehicle's value; every vehicle of the inventory has such a node.
C23_PayloadIsAllowListProjection ==
  GraphReturned =>
    /\ \A i \in NodesOfType("Vehicle") :
         \E k \in DOMAIN InventoryVehicles :
           ProjectionOf(result.nodes[i].payload, InventoryVehicles[k])
    /\ \A k \in DOMAIN InventoryVehicles :
         \E i \in NodesOfType("Vehicle") :
           ProjectionOf(result.nodes[i].payload, InventoryVehicles[k])

\* A graph with the node of a vehicle that has a vin and a node without it.
C23_Witness ==
  /\ GraphReturned
  /\ \E k \in DOMAIN InventoryVehicles : InventoryVehicles[k] = VehicleA
  /\ \E i \in NodesOfType("Vehicle") :
       KeysOf(result.nodes[i].payload) = {"id", "make", "model", "trim", "range"}

(***************************************************************************)
(* Properties of the shapes loadInventory accepts.                         *)
(***************************************************************************)
InventoryLoaded == op = "loadInventory"

HoldsCarsArray == db.st = "json" /\ GetOpt(db.val, "cars").t = "array"
HoldsBareArray == db.st = "json" /\ ~HoldsCarsArray /\ db.val.t = "array"
HoldsOtherShape == db.st = "json" /\ ~HoldsCarsArray /\ ~HoldsBareArray

\* The value returned is the synthetic fallback over the asset directory.
FallbackTaken ==
  /\ result.source = ASSETS_DIR
  /\ assets.st = "missing" => ~result.raised /\ result.vehicles = <<>>
  /\ assets.st = "dir" =>
       /\ ~result.raised
       /\ Len(result.vehicles) = Len(ImageFilesListed)
       /\ \A i \in DOMAIN result.vehicles :
            Get(result.vehicles[i], "image") = Str(<<"assets/cars/">> \o ImageFilesListed[i])

\* C24: loadInventory takes the primary list from a parsed array or from the
\* cars array of a parsed object; every other parsed shape gives an empty
\* primary list, and the call takes the synthetic fallback and raises no
\* error for the shape.
C24_ShapesOfPrimaryList ==
  InventoryLoaded =>
    /\ HoldsCarsArray /\ GetOpt(db.val, "cars").a # <<>> =>
         /\ ~result.raised
         /\ result.vehicles = GetOpt(db.val, "cars").a
         /\ result.source = DB_PATH
    /\ HoldsBareArray /\ db.val.a # <<>> =>
         /\ ~result.raised
         /\ result.vehicles = db.val.a
         /\ result.source = DB_PATH
    /\ HoldsOtherShape => FallbackTaken

\* loadInventory answered a file of another shape with synthetic vehicles.
C24_Witness ==
  /\ InventoryLoaded
  /\ HoldsOtherShape
  /\ ~result.raised
  /\ Len(result.vehicles) > 0

(***************************************************************************)
(* Properties of the service hub and of its artifact in the graph.         *)
(***************************************************************************)
\* The hub composed a payload (and wrote it).
PayloadComposed == op = "composeServicePackages" /\ ~result.raised

ComposedPackages == result.payload.o.packages.a

ContractFields ==
  {"id", "vehicleId", "package", "price", "cadence", "workshop", "dependencies", "source"}

ContractDependencies == {"vehicleNode", "uiComponent", "analyticsSource"}

\* C25: every package composeServicePackages emits has the fields id,
\* vehicleId, package, price, cadence, workshop, dependencies and source,
\* its price is an integer, and its dependencies have the keys vehicleNode,
\* uiComponent and analyticsSource of the data contract.
C25_PackagesFollowDataContract ==
  PayloadComposed =>
    \A i \in DOMAIN ComposedPackages :
      /\ ContractFields \subseteq KeysOf(ComposedPackages[i])
      /\ ComposedPackages[i].o.price.t = "number"
      /\ ComposedPackages[i].o.price.n \in Int
      /\ ContractDependencies \subseteq KeysOf(ComposedPackages[i].o.dependencies)

(***************************************************************************)
(* Properties of the order of the node list.                               *)
(***************************************************************************)
\* The place of a node type in the order of discovery.
Rank(type) ==
  CASE type = "FleetInventory" -> 1
    [] type = "Vehicle" -> 2
    [] type = "Persona" -> 3
    [] type = "UIComponentSet" -> 4
    [] type = "ServicePackage" -> 5

\* The items of the pushes of one kind, in order.
Pushed(log, kind) ==
  [i \in 1..Len(SelectSeq(log, LAMBDA e : e.push = kind)) |->
     SelectSeq(log, LAMBDA e : e.push = kind)[i].item]

\* Each edge of the log is pushed after nodes with the ids of both its ends.
EdgesFollowTheirEnds(log) ==
  \A k \in DOMAIN log :
    log[k].push = "edge" =>
      /\ \E i \in 1..(k - 1) : log[i].push = "node" /\ log[i].item.id = log[k].item.from
      /\ \E i \in 1..(k - 1) : log[i].push = "node" /\ log[i].item.id = log[k].item.to

\* The pushes that gave the graph returned, for the draws of nanoid it shows.
LogsOfBuild ==
  { PushOrder(loadInventory(db, assets), summarizeVehicles(InventoryVehicles),
              loadPersonaMetadata(personaFile), listReferencedComponents(uiFile),
              loadServicePackages(svcFile), rnd) :
      rnd \in Draws(InventoryVehicles, loadPersonaMetadata(personaFile),
                    listReferencedComponents(uiFile)) }

\* C26: the node list of a returned graph is in discovery order: the root
\* first, then the Vehicle nodes in inventory order, then the Persona node,
\* then the UIComponentSet node, then the ServicePackage nodes in artifact
\* order; and in the sequence of pushes that gave the graph an edge is pushed
\* only after nodes with the ids of both its ends.
C26_NodesInDiscoveryOrder ==
  GraphReturned =>
    /\ result.nodes[1].type = "FleetInventory"
    /\ \A i, j \in DOMAIN result.nodes :
         i < j => Rank(result.nodes[i].type) <= Rank(result.nodes[j].type)
    /\ \A k \in DOMAIN InventoryVehicles :
         /\ result.nodes[1 + k].type = "Vehicle"
         /\ ProjectionOf(result.nodes[1 + k].payload, InventoryVehicles[k])
    /\ \A k \in DOMAIN ArtifactPackages :
         result.nodes[Len(result.nodes) - Len(ArtifactPackages) + k].id
           = <<"carhub:service:">> \o ToText(Get(ArtifactPackages[k], "id"))
    /\ \E log \in LogsOfBuild :
         /\ Pushed(log, "node") = result.nodes
         /\ Pushed(log, "edge") = result.edges
         /\ EdgesFollowTheirEnds(log)

\* A graph with nodes of all five types, two vehicles among them, and a
\* SERVICES edge.
C26_Witness ==
  /\ GraphReturned
  /\ \A t \in NodeTypes : NodesOfType(t) # {}
  /\ Cardinality(NodesOfType("Vehicle")) = 2
  /\ EdgesOf("SERVICES") # {}

(***************************************************************************)
(* Properties of the names and numbers derived from asset file names.      *)
(***************************************************************************)
\* The segments of the base name of a file: the name up to its last ".",
\* split on "-".
SegmentsOf(file) == Split(SubSeq(file, 1, LastIndexOf(file, ".") - 1), "-")

\* make, model and variant as stated: segment 0, segment 1 or "vehicle" when
\* there is none, the remaining segments joined or "base" when there are none.
NameAsStated(segs) ==
  [ make |-> segs[1],
    model |-> IF Len(segs) >= 2 THEN segs[2] ELSE <<"v", "e", "h", "i", "c", "l", "e">>,
    variant |-> IF Len(segs) >= 3 THEN Join(SubSeq(segs, 3, Len(segs)), <<"-">>)
                ELSE <<"b", "a", "s", "e">> ]

\* The same with each default taken also when the text is empty, and with
\* "unknown" for an empty segment 0.
NameWithDefaults(segs) ==
  [ make |-> IF segs[1] = <<>> THEN <<"u", "n", "k", "n", "o", "w", "n">> ELSE segs[1],
    model |-> IF Len(segs) < 2 \/ segs[2] = <<>>
              THEN <<"v", "e", "h", "i", "c", "l", "e">> ELSE segs[2],
    variant |-> IF Join(SubSeq(segs, 3, Len(segs)), <<"-">>) = <<>>
                THEN <<"b", "a", "s", "e">>
                ELSE Join(SubSeq(segs, 3, Len(segs)), <<"-">>) ]

\* Vehicle v carries the make, model and variant of name n.
CarriesName(v, n) ==
  /\ Get(v, "id") = Str(n.make \o <<"-">> \o n.model \o <<"-">> \o n.variant)
  /\ Get(v, "make") = Str(toTitle(n.make))
  /\ Get(v, "model") = Str(toTitle(n.model))
  /\ Get(v, "trim") = Str(toTitle(n.variant))

\* C27 as stated: every file with a recognised image extension gives a
\* vehicle with make = segment 0, model = segment 1 or "vehicle", variant =
\* the remaining segments joined or "base"; other files give no vehicle.
C27_NameIsSegments ==
  SynthesizedReturned =>
    /\ Len(result.vehicles) = Len(ImageFilesListed)
    /\ \A i \in DOMAIN result.vehicles :
         CarriesName(result.vehicles[i], NameAsStated(SegmentsOf(ImageFilesListed[i])))

\* C27 amended: the same, with make = "unknown" when segment 0 is empty and
\* the defaults of model and variant taken also for an empty text.
C27_NameIsSegmentsOrDefaults ==
  SynthesizedReturned =>
    /\ Len(result.vehicles) = Len(ImageFilesListed)
    /\ \A i \in DOMAIN result.vehicles :
         CarriesName(result.vehicles[i], NameWithDefaults(SegmentsOf(ImageFilesListed[i])))

\* An inventory synthesized from a file whose name starts with "-".
C27_Witness ==
  /\ SynthesizedReturned
  /\ assets.files = <<AssetDash>>
  /\ Len(result.vehicles) = 1
  /\ Get(result.vehicles[1], "id")
       = Str(<<"u", "n", "k", "n", "o", "w", "n", "-", "b", "-", "b", "a", "s", "e">>)

\* The code of the first character of a text.
FirstCode(text) == CharCode(text[1])

\* C28: the range of a synthesized vehicle is 250 + ((code of make[0] + code
\* of model[0]) mod 100), between 250 and 349, and its price is 30000 + 500 *
\* code of make[0], a multiple of 100; both are numbers for every file name,
\* also for one with an empty first segment.
C28_RangeAndPriceFromFirstCodes ==
  SynthesizedReturned =>
    \A i \in DOMAIN result.vehicles :
      /\ Get(result.vehicles[i], "range")
           = Num(250 + ((FirstCode(NameWithDefaults(SegmentsOf(ImageFilesListed[i])).make)
                         + FirstCode(NameWithDefaults(SegmentsOf(ImageFilesListed[i])).model))
                        % 100))
      /\ Get(result.vehicles[i], "range").n \in 250..349
      /\ Get(result.vehicles[i], "price")
           = Num(30000 + 500 * FirstCode(NameWithDefaults(SegmentsOf(ImageFilesListed[i])).make))
      /\ Get(result.vehicles[i], "price").n % 100 = 0

\* The vehicle of a file whose name starts with "-": range 265, price 88500.
C28_Witness ==
  /\ SynthesizedReturned
  /\ assets.files = <<AssetDash>>
  /\ Get(result.vehicles[1], "range") = Num(265)
  /\ Get(result.vehicles[1], "price") = Num(88500)

(***************************************************************************)
(* Properties of the root node: its total and the edges that lead to it.   *)
(***************************************************************************)
RootRelations == {"PART_OF", "TARGETS", "VISUALIZES", "ALIGN_WITH"}

\* C29: in a returned graph the total of the root's stats is the number of
\* Vehicle nodes and the number of PART_OF edges, and every PART_OF, TARGETS,
\* VISUALIZES and ALIGN_WITH edge leads to the root.
C29_TotalCountsVehiclesAndEdgesReachRoot ==
  GraphReturned =>
    \A r \in NodesOfType("FleetInventory") :
      /\ result.nodes[r].stats.total = Cardinality(NodesOfType("Vehicle"))
      /\ result.nodes[r].stats.total = Cardinality(EdgesOf("PART_OF"))
      /\ \A j \in DOMAIN result.edges :
           result.edges[j].relation \in RootRelations =>
             result.edges[j].to = result.nodes[r].id

\* A graph of two vehicles with a UI node and a package.
C29_Witness ==
  /\ GraphReturned
  /\ \E r \in NodesOfType("FleetInventory") : result.nodes[r].stats.total = 2
  /\ EdgesOf("PART_OF") # {}
  /\ EdgesOf("VISUALIZES") # {}
  /\ EdgesOf("ALIGN_WITH") # {}

\* The cars array of db.json, empty when there is none.
CarsOfDb ==
  IF db.st = "json" /\ GetOpt(db.val, "cars").t = "array"
  THEN GetOpt(db.val, "cars").a
  ELSE <<>>

\* The artifact is one the hub wrote.
ArtifactOfHub == svcFile.st = "json" /\ "upstream" \in KeysOf(svcFile.val)

\* The artifact is the one a run of the hub on db.json as it is now writes.
ArtifactOfCurrentDb ==
  /\ ArtifactOfHub
  /\ \E now \in Timestamps :
       /\ ~composeServicePackages(db, now).raised
       /\ svcFile = writeServicePackages(composeServicePackages(db, now).payload)

\* Pairwise distinct non-empty ids.
DistinctIds(ids) ==
  /\ \A i \in DOMAIN ids : Truthy(ids[i])
  /\ \A i, j \in DOMAIN ids : i # j => ids[i] # ids[j]

IdsOf(list, key) == [i \in DOMAIN list |-> GetOpt(list[i], key)]

VehicleNodeIdOf(id) == <<"carhub:vehicle:">> \o ToText(id)
PackageNodeIdOf(id) == <<"carhub:service:">> \o ToText(id)

\* C30: when the hub composed and wrote the artifact from a db.json whose
\* cars have pairwise distinct non-empty ids and the graph is built with
\* db.json unchanged, the graph has one ServicePackage node per vehicle, and
\* that node has exactly one SERVICES edge, to the node of its vehicle; when
\* db.json changed after the hub's run, a package whose vehicle is gone keeps
\* its node and its ALIGN_WITH edge and has no SERVICES edge.
C30_HubPackagesJoinCurrentVehicles ==
  /\ (GraphReturned /\ ArtifactOfCurrentDb /\ DistinctIds(IdsOf(CarsOfDb, "id"))) =>
       /\ Cardinality(NodesOfType("ServicePackage")) = Len(CarsOfDb)
       /\ \A k \in DOMAIN CarsOfDb :
            /\ Cardinality({i \in NodesOfType("ServicePackage") :
                  result.nodes[i].id
                    = PackageNodeIdOf(Str(<<"svc-">> \o ToText(Get(CarsOfDb[k], "id"))))}) = 1
            /\ Cardinality(EdgesFrom(
                  PackageNodeIdOf(Str(<<"svc-">> \o ToText(Get(CarsOfDb[k], "id")))),
                  "SERVICES")) = 1
            /\ \A j \in EdgesFrom(
                  PackageNodeIdOf(Str(<<"svc-">> \o ToText(Get(CarsOfDb[k], "id")))),
                  "SERVICES") :
                 /\ result.edges[j].to = VehicleNodeIdOf(Get(CarsOfDb[k], "id"))
                 /\ \E v \in NodesOfType("Vehicle") :
                      /\ result.nodes[v].id = result.edges[j].to
                      /\ ProjectionOf(result.nodes[v].payload, CarsOfDb[k])
  /\ (GraphReturned /\ ArtifactOfHub /\ ~ArtifactOfCurrentDb
        /\ DistinctIds(IdsOf(ArtifactPackages, "vehicleId"))) =>
       \A k \in DOMAIN ArtifactPackages :
         ~NamesInventoryVehicle(ArtifactPackages[k]) =>
           /\ \E i \in NodesOfType("ServicePackage") :
                result.nodes[i].id = PackageNodeIdOf(Get(ArtifactPackages[k], "id"))
           /\ Cardinality(EdgesFrom(PackageNodeIdOf(Get(ArtifactPackages[k], "id")),
                                    "ALIGN_WITH")) = 1
           /\ EdgesFrom(PackageNodeIdOf(Get(ArtifactPackages[k], "id")), "SERVICES") = {}

====
